---- MODULE Spec2Model ----
(***************************************************************************)
(* pretalx-downstream: the periodic trigger (signals.py) and the refresh   *)
(* task (tasks.py) that pulls a frab XML schedule from an upstream URL and *)
(* merges it into the local pretalx store.                                 *)
(*                                                                         *)
(* Python values are modelled as follows.  A str is a TLA+ string.  None   *)
(* is the string None below, an XML element that is absent from the        *)
(* document (find() returns None) is the string Absent; neither occurs as  *)
(* a text of the documents served.  A bool is a BOOLEAN.  A datetime is a  *)
(* record [day, min].  Primary keys are positions in the table's sequence. *)
(***************************************************************************)
EXTENDS Integers, Sequences, FiniteSets, TLC

VARIABLES
    db,        \* the relational store: rooms, types, tracks, subs, users, ...
    results,   \* the UpstreamResult table (append only)
    settings,  \* event.settings of every event (hierarkey key/value store)
    upstream,  \* what the server behind each event's URL may answer
    task,      \* the refresh task in flight for each event (its locals)
    invoked,   \* task invocations queued for each event (celery)
    budget,    \* task invocations the environment may still make
    now,       \* the wall clock, in minutes
    last,      \* how the last finished task of each event ended (history)
    tick       \* what the last periodic_task signal did (history)

vars == <<db, results, settings, upstream, task, invoked, budget, now, last, tick>>

----------------------------------------------------------------------------
(* Bounds of the model *)

\* task invocations in a behaviour of Spec
MaxRuns == 2
\* task invocations in a behaviour of SpecTrigger
MaxTriggerRuns == 2
\* the clock of SpecTrigger is advanced by the environment up to this minute
MaxTime == 3

(* Program constants *)

\* talk.attrib['guid'][:16]
GuidCodeLen == 16
\* person.text[:60]
NameLookupLen == 60
\* event.settings.downstream_interval or 5
DefaultInterval == 5
\* response.status_code != 200
HttpOk == 200

None == "<None>"
Absent == "<Absent>"

Events == {"e1", "e2"}
\* Event.objects.all(): the order in which the periodic handler visits events
EventOrder == <<"e1", "e2">>

----------------------------------------------------------------------------
(* Python and Django primitives used by the code *)

UpperChars == "ABCDEFGHIJKLMNOPQRSTUVWXYZ"
LowerChars == "abcdefghijklmnopqrstuvwxyz"

Uppers == {SubSeq(UpperChars, i, i) : i \in 1..26}
LowerOfUpper ==
    [c \in Uppers |->
        SubSeq(LowerChars, CHOOSE i \in 1..26 : SubSeq(UpperChars, i, i) = c,
                           CHOOSE i \in 1..26 : SubSeq(UpperChars, i, i) = c)]

LowerChar(c) == IF c \in Uppers THEN LowerOfUpper[c] ELSE c

RECURSIVE Lower(_)
Lower(s) ==
    IF Len(s) = 0 THEN ""
    ELSE LowerChar(SubSeq(s, 1, 1)) \o Lower(SubSeq(s, 2, Len(s)))

\* s[:n]
Prefix(s, n) == IF Len(s) <= n THEN s ELSE SubSeq(s, 1, n)

\* field__iexact=value
IExact(stored, value) == Lower(stored) = Lower(value)

\* field__icontains=value
IContains(stored, value) ==
    \E i \in 1..(Len(stored) + 1) :
        /\ i + Len(value) - 1 <= Len(stored)
        /\ Lower(SubSeq(stored, i, i + Len(value) - 1)) = Lower(value)

\* x or d
PyOr(x, d) == IF x = None \/ x = "" THEN d ELSE x

\* the minimum and maximum of a non-empty set of numbers
MinOf(S) == CHOOSE x \in S : \A y \in S : x <= y
MaxOf(S) == CHOOSE x \in S : \A y \in S : x >= y

\* the range of a sequence
Range(s) == {s[i] : i \in DOMAIN s}

\* dict.update(other)
DictUpdate(d, other) ==
    [k \in (DOMAIN d) \cup (DOMAIN other) |->
        IF k \in DOMAIN other THEN other[k] ELSE d[k]]

EmptyDict == [k \in {} |-> None]

\* a datetime from a day number and minutes since midnight
DateTime(day, min) == [day |-> day + (min \div 1440), min |-> min % 1440]
\* datetime ordering
DtKey(dt) == dt.day * 1440 + dt.min

\* str.split(':')
RECURSIVE SplitColon(_)
SplitColon(s) ==
    IF \E i \in 1..Len(s) : SubSeq(s, i, i) = ":"
    THEN LET i == MinOf({j \in 1..Len(s) : SubSeq(s, j, j) = ":"})
         IN  <<SubSeq(s, 1, i - 1)>> \o SplitColon(SubSeq(s, i + 1, Len(s)))
    ELSE <<s>>

Digits == "0123456789"
DigitVal(c) == (CHOOSE i \in 1..10 : SubSeq(Digits, i, i) = c) - 1
IsDigit(c) == \E i \in 1..10 : SubSeq(Digits, i, i) = c

\* int(s) raises ValueError unless s is a decimal numeral
IsNumeral(s) == Len(s) > 0 /\ \A i \in 1..Len(s) : IsDigit(SubSeq(s, i, i))

RECURSIVE IntOf(_)
IntOf(s) ==
    IF Len(s) = 0 THEN 0
    ELSE 10 * IntOf(SubSeq(s, 1, Len(s) - 1)) + DigitVal(SubSeq(s, Len(s), Len(s)))

\* dateutil.parser.parse on the dates and times of day the documents use
DateTexts == [t \in {"2024-01-01", "2024-01-02", "2024-01-03"} |->
                 IntOf(SubSeq(t, 9, 10))]
TimeTexts == [t \in {"09:00", "10:00", "17:00", "23:30"} |->
                 60 * IntOf(SubSeq(t, 1, 2)) + IntOf(SubSeq(t, 4, 5))]

ParseOk(text) ==
    \E d \in DOMAIN DateTexts, t \in DOMAIN TimeTexts : text = d \o " " \o t

\* parse(date + ' ' + time)
Parse(text) ==
    LET p == CHOOSE p \in (DOMAIN DateTexts) \X (DOMAIN TimeTexts) :
                 text = p[1] \o " " \o p[2]
    IN  DateTime(DateTexts[p[1]], TimeTexts[p[2]])

----------------------------------------------------------------------------
(* The upstream documents.  An <event> element is a record of its          *)
(* attributes and of the texts of its children; persons is the list of the *)
(* <person> texts, has_persons whether <persons> is there at all.          *)

Guid1 == "0123456789abcdef-g1"
Guid2 == "fedcba9876543210-g2"
\* a display name of 61 characters
LongName == "Maximilian-Alexander von und zu Hohenlohe-Schillingsfuerst II"

Talk1 ==
    [id |-> "1", guid |-> Guid1, date |-> "2024-01-01", start |-> "09:00",
     duration |-> "0:30", end |-> Absent, type |-> "Talk", track |-> "Main",
     title |-> "A", subtitle |-> None, description |-> "Details",
     abstract |-> None, language |-> None, recording |-> Absent,
     has_persons |-> TRUE, persons |-> <<"Ann">>]

\* the same external id republished: new guid, new content, a later slot
Talk1b ==
    [Talk1 EXCEPT !.guid = Guid2, !.title = "B", !.subtitle = "Intro",
                  !.language = "de", !.recording = "true",
                  !.date = "2024-01-03", !.start = "10:00", !.end = "17:00",
                  !.persons = <<"Ann", "Bob">>]

Talk2 ==
    [Talk1 EXCEPT !.id = "2", !.guid = "22222222-g", !.title = "C",
                  !.date = "2024-01-02", !.start = "23:30", !.duration = "1:00",
                  !.track = "Side", !.persons = << >>]

\* a non-numeric duration
TalkBadDuration == [Talk2 EXCEPT !.id = "3", !.duration = "1:xx"]
\* no <title> element
TalkNoTitle == [Talk2 EXCEPT !.id = "3", !.title = Absent]

\* a second talk of the track "Main", two days after Talk1
Talk4 ==
    [Talk1 EXCEPT !.id = "4", !.guid = "44444444-g", !.title = "D",
                  !.date = "2024-01-03", !.start = "10:00", !.end = "17:00",
                  !.persons = <<"Bob">>]
\* an external id that is the first 16 characters of the guid of Talk1
TalkGuidAsId == [Talk2 EXCEPT !.id = "0123456789abcdef"]
\* <track/>: the element is there, its text is None
TalkNoTrack == [Talk2 EXCEPT !.track = None]
\* <type/>, twice with the same duration
TalkNoType == [Talk2 EXCEPT !.type = None]
TalkNoType5 == [Talk2 EXCEPT !.id = "5", !.guid = "55555555-g", !.type = None]
\* a speaker whose name is longer than the lookup takes
TalkLongName == [Talk2 EXCEPT !.persons = <<LongName>>]
\* two external ids that differ in letter case only
TalkLowerId == [Talk2 EXCEPT !.id = "ab", !.guid = "aaaaaaaa-g"]
TalkUpperId == [Talk2 EXCEPT !.id = "AB", !.guid = "bbbbbbbb-g", !.title = "E"]

Room(name, events) == [name |-> name, events |-> events]

\* ET.fromstring(content): the tree of each content the servers publish;
\* "garbage" is not well-formed XML
Documents ==
    [c \in {"D1", "D2", "D3", "D4", "D5", "D6", "D7", "D8", "D9", "D10", "D11",
             "D12", "D13"} |->
        CASE c = "D1" -> [version |-> "v1",
                          days |-> << <<Room("R1", <<Talk1>>)>> >>]
          [] c = "D2" -> [version |-> "v2",
                          days |-> << <<Room("R1", <<Talk1b>>)>> >>]
          \* one external id twice in a document
          [] c = "D3" -> [version |-> "v1",
                          days |-> << <<Room("R1", <<Talk1>>)>>,
                                      <<Room("R2", <<Talk1b>>)>> >>]
          \* a good talk, then one with a non-numeric duration
          [] c = "D4" -> [version |-> "v2",
                          days |-> << <<Room("R2", <<Talk2, TalkBadDuration>>)>> >>]
          \* an empty <version/> element
          [] c = "D5" -> [version |-> None,
                          days |-> << <<Room("R2", <<Talk2>>)>> >>]
          \* no <version> element
          [] c = "D6" -> [version |-> Absent,
                          days |-> << <<Room("R2", <<Talk2>>)>> >>]
          \* a talk without <title>
          [] c = "D7" -> [version |-> "v3",
                          days |-> << <<Room("R2", <<Talk2, TalkNoTitle>>)>> >>]
          \* two talks of one track, 2024-01-01 09:00 through 2024-01-03 17:00
          [] c = "D8" -> [version |-> "v1",
                          days |-> << <<Room("R1", <<Talk1>>)>>,
                                      <<Room("R1", <<Talk4>>)>> >>]
          \* the id of Talk1 and the prefix of its guid, both as ids
          [] c = "D9" -> [version |-> "v1",
                          days |-> << <<Room("R1", <<Talk1>>),
                                        Room("R2", <<TalkGuidAsId>>)>> >>]
          [] c = "D10" -> [version |-> "v1",
                           days |-> << <<Room("R2", <<TalkNoTrack>>)>> >>]
          [] c = "D11" -> [version |-> "v1",
                           days |-> << <<Room("R2", <<TalkNoType, TalkNoType5>>)>> >>]
          [] c = "D12" -> [version |-> "v1",
                           days |-> << <<Room("R2", <<TalkLongName>>)>> >>]
          [] c = "D13" -> [version |-> "v1",
                           days |-> << <<Room("R2", <<TalkLowerId, TalkUpperId>>)>> >>]]

WellFormed(content) == content \in DOMAIN Documents

\* an HTTP response: status code and body
Response(status, content) == [status_code |-> status, content |-> content]

\* what the server of each schedule may answer in Spec
UpstreamOf(e) ==
    IF e = "e1"
    THEN {Response(HttpOk, c) : c \in {"D1", "D2", "D3", "D4", "D5", "D6", "D7"}}
             \cup {Response(404, "")}
    ELSE {Response(HttpOk, c) : c \in {"D1", "D2"}}

\* what the servers may answer in SpecEdge: documents with empty elements,
\* long names, ids that look like guids or differ in case only
UpstreamEdge(e) ==
    IF e = "e1"
    THEN {Response(HttpOk, c) : c \in {"D8", "D9", "D10", "D11", "D12", "D13"}}
    ELSE {Response(HttpOk, c) : c \in {"D1", "D2", "D12"}}

----------------------------------------------------------------------------
(* The store.  Submission.code and User.email are unique columns of        *)
(* pretalx; a new Submission has title '', description and abstract NULL,  *)
(* content_locale 'en', do_not_record False, and is given a random unused  *)
(* code by Submission.save() when it has none.                             *)

EmptyDb ==
    [rooms    |-> {},        \* Room: [event, name]
     types    |-> << >>,     \* SubmissionType: [event, name, default_duration]
     tracks   |-> << >>,     \* Track: [event, name]
     subs     |-> << >>,     \* Submission
     users    |-> << >>,     \* User: [name, email]
     profiles |-> {},        \* SpeakerProfile: [user, event]
     wip      |-> [e \in Events |-> {}],   \* TalkSlots of event.wip_schedule
     released |-> << >>,     \* frozen Schedules: [event, version, talks]
     dates    |-> [e \in Events |-> [date_from |-> 0, date_to |-> 0]]]

\* the codes Submission.save() may draw for a talk without one
CodePool == {"XKCD42", "PLUQ9Z"}
FirstDraw == <<"XKCD42", "PLUQ9Z">>
CodeDraws == {FirstDraw, <<"PLUQ9Z", "XKCD42">>}

NewSubmission(event, code, sub_type) ==
    [event |-> event, code |-> code, title |-> "", description |-> None,
     abstract |-> None, content_locale |-> "en", do_not_record |-> FALSE,
     submission_type |-> sub_type, track |-> 0, speakers |-> {}]

\* the fields _create_talk tracks, tasks.py lines 148-154
TrackedFields ==
    {"title", "description", "abstract", "content_locale", "do_not_record"}

\* event.current_schedule: the version of the latest release, or None
CurrentVersion(d, event) ==
    LET mine == {i \in DOMAIN d.released : d.released[i].event = event}
    IN  IF mine = {} THEN None ELSE d.released[MaxOf(mine)].version

Raise(d, exc) == [db |-> d, err |-> exc, changes |-> EmptyDict, drew |-> FALSE]

----------------------------------------------------------------------------
(* _create_talk, tasks.py lines 89-187, stage by stage.  Every stage takes *)
(* the store and returns the store with what it found or created, or the   *)
(* exception it raised.                                                    *)

\* lines 91-99: date, start, duration, end
TalkTimes(talk) ==
    LET parts == SplitColon(talk.duration)
    IN  IF talk.date = Absent \/ talk.start = Absent \/ talk.duration = Absent
        THEN [err |-> "AttributeError"]
        ELSE IF ~ParseOk(talk.date \o " " \o talk.start)
        THEN [err |-> "ValueError"]
        ELSE IF Len(parts) # 2 \/ ~IsNumeral(parts[1]) \/ ~IsNumeral(parts[2])
        THEN [err |-> "ValueError"]
        ELSE LET start   == Parse(talk.date \o " " \o talk.start)
                 minutes == 60 * IntOf(parts[1]) + IntOf(parts[2])
             IN  IF talk.end = Absent
                 THEN [err |-> "", start |-> start, minutes |-> minutes,
                       end |-> DateTime(start.day, start.min + minutes)]
                 ELSE IF ~ParseOk(talk.date \o " " \o talk.end)
                 THEN [err |-> "ValueError"]
                 ELSE [err |-> "", start |-> start, minutes |-> minutes,
                       end |-> Parse(talk.date \o " " \o talk.end)]

\* lines 100-109: SubmissionType.objects.filter(...).first() or create
SubTypeOf(d, talk, event, minutes) ==
    LET found == {i \in DOMAIN d.types :
                     /\ d.types[i].event = event
                     /\ talk.type # None
                     /\ d.types[i].name = talk.type
                     /\ d.types[i].default_duration = minutes}
    IN  IF found # {}
        THEN [db |-> d, pk |-> MinOf(found)]
        ELSE [db |-> [d EXCEPT !.types = Append(@,
                        [event |-> event, name |-> PyOr(talk.type, "default"),
                         default_duration |-> minutes])],
              pk |-> Len(d.types) + 1]

\* lines 111-122: the tracks whose name contains the upstream name, narrowed
\* to the equal ones; the first of them, or a new track
TrackOf(d, talk, event) ==
    LET tracks == {i \in DOMAIN d.tracks :
                      /\ d.tracks[i].event = event
                      /\ IContains(d.tracks[i].name, talk.track)}
        track  == {i \in tracks : d.tracks[i].name = talk.track}
    IN  IF track # {}
        THEN [db |-> d, pk |-> MinOf(track)]
        ELSE [db |-> [d EXCEPT !.tracks = Append(@,
                        [event |-> event, name |-> PyOr(talk.track, "default")])],
              pk |-> Len(d.tracks) + 1]

\* lines 124-126
OptOut(talk) == IF talk.recording = Absent THEN FALSE ELSE talk.recording = "true"

\* Submission.objects.filter(code__iexact=code, event=event).exists()
CodeInEvent(d, code, event) ==
    \E i \in DOMAIN d.subs : d.subs[i].event = event /\ IExact(d.subs[i].code, code)

\* Submission.objects.filter(code__iexact=code).exists()
CodeAnywhere(d, code) ==
    \E i \in DOMAIN d.subs : IExact(d.subs[i].code, code)

\* a candidate taken only when no talk at all has it as code
ResolveCodeUnusedOnly(d, talk, event) ==
    IF ~CodeAnywhere(d, talk.id)
    THEN talk.id
    ELSE IF ~CodeAnywhere(d, Prefix(talk.guid, GuidCodeLen))
    THEN Prefix(talk.guid, GuidCodeLen)
    ELSE None

\* the guid taken whole
ResolveCodeWholeGuid(d, talk, event) ==
    IF CodeInEvent(d, talk.id, event) \/ ~CodeAnywhere(d, talk.id)
    THEN talk.id
    ELSE IF \/ CodeInEvent(d, talk.guid, event)
            \/ ~CodeAnywhere(d, talk.guid)
    THEN talk.guid
    ELSE None

\* lines 128-140: the code of the talk, None when neither candidate is taken
ResolveCode(d, talk, event) ==
    IF CodeInEvent(d, talk.id, event) \/ ~CodeAnywhere(d, talk.id)
    THEN talk.id
    ELSE IF \/ CodeInEvent(d, Prefix(talk.guid, GuidCodeLen), event)
            \/ ~CodeAnywhere(d, Prefix(talk.guid, GuidCodeLen))
    THEN Prefix(talk.guid, GuidCodeLen)
    ELSE None

\* whether line 134 is reached, which reads talk.attrib['guid']
ReadsGuid(d, talk, event) ==
    ~(CodeInEvent(d, talk.id, event) \/ ~CodeAnywhere(d, talk.id))

\* the first code of the draw that no submission carries (assign_code)
DrawnCode(d, rnd) ==
    LET free == {i \in DOMAIN rnd : ~CodeAnywhere(d, rnd[i])}
    IN  IF free = {} THEN None ELSE rnd[MinOf(free)]

\* lines 142-144: Submission.objects.get_or_create(event=event, code=code,
\* defaults={'submission_type': sub_type}); code=None matches no row
GetOrCreateSubmission(d, event, code, sub_type, rnd) ==
    LET found == {i \in DOMAIN d.subs :
                     /\ code # None
                     /\ d.subs[i].event = event
                     /\ d.subs[i].code = code}
        fresh == IF code = None THEN DrawnCode(d, rnd) ELSE code
    IN  IF found # {}
        THEN [db |-> d, pk |-> MinOf(found), created |-> FALSE, err |-> "",
              drew |-> FALSE]
        ELSE IF fresh = None
        THEN [db |-> d, pk |-> 0, created |-> FALSE, err |-> "CodePoolExhausted",
              drew |-> TRUE]
        ELSE IF \E i \in DOMAIN d.subs : d.subs[i].code = fresh
        THEN [db |-> d, pk |-> 0, created |-> FALSE, err |-> "IntegrityError",
              drew |-> FALSE]
        ELSE [db |-> [d EXCEPT !.subs = Append(@, NewSubmission(event, fresh, sub_type))],
              pk |-> Len(d.subs) + 1, created |-> TRUE, err |-> "",
              drew |-> code = None]

\* lines 148-160: change_tracking_data
ChangeTrackingData(talk) ==
    LET description ==
            IF talk.subtitle # None /\ talk.subtitle # ""
            THEN talk.subtitle \o "\n" \o PyOr(talk.description, "")
            ELSE talk.description
    IN  [title          |-> talk.title,
         description    |-> description,
         abstract       |-> talk.abstract,
         content_locale |-> PyOr(talk.language, "en"),
         do_not_record  |-> OptOut(talk)]

\* lines 162-165: the fields of sub that differ from the upstream values
FieldChanges(sub, data) ==
    [k \in {f \in TrackedFields : sub[f] # data[f]} |->
        [old |-> sub[k], new |-> data[k]]]

\* the locale compared but not assigned
SavedSubmissionKeepsLocale(sub, sub_type, track, data) ==
    [sub EXCEPT !.submission_type = sub_type,
                !.track = track,
                !.title = data.title,
                !.description = data.description,
                !.abstract = data.abstract,
                !.do_not_record = data.do_not_record]

\* lines 145-146, 162-167: assign type, track and the tracked fields, save
SavedSubmission(sub, sub_type, track, data) ==
    [sub EXCEPT !.submission_type = sub_type,
                !.track = track,
                !.title = data.title,
                !.description = data.description,
                !.abstract = data.abstract,
                !.content_locale = data.content_locale,
                !.do_not_record = data.do_not_record]

\* lines 169-175: one <person>
AddSpeaker(d, pk, event, name) ==
    LET found == {i \in DOMAIN d.users :
                     d.users[i].name = Prefix(name, NameLookupLen)}
        email == name \o "@localhost"
    IN  IF name = None
        THEN [db |-> d, err |-> "TypeError"]
        ELSE IF found # {}
        THEN [db |-> [d EXCEPT !.subs[pk].speakers = @ \cup {MinOf(found)}],
              err |-> ""]
        ELSE IF \E i \in DOMAIN d.users : d.users[i].email = email
        THEN [db |-> d, err |-> "IntegrityError"]
        ELSE [db |-> [d EXCEPT
                        !.users = Append(@, [name |-> name, email |-> email]),
                        !.profiles = @ \cup {[user |-> Len(d.users) + 1,
                                              event |-> event]},
                        !.subs[pk].speakers = @ \cup {Len(d.users) + 1}],
              err |-> ""]

\* lines 169-175: the loop over the <person> elements
RECURSIVE AddSpeakers(_, _, _, _)
AddSpeakers(d, pk, event, persons) ==
    IF persons = << >>
    THEN [db |-> d, err |-> ""]
    ELSE LET one == AddSpeaker(d, pk, event, Head(persons))
         IN  IF one.err # "" THEN one
             ELSE AddSpeakers(one.db, pk, event, Tail(persons))

\* the slots of the submission in every schedule of the event rewritten
UpsertSlotAnySchedule(d, pk, event, room, start, end) ==
    [d EXCEPT
        !.wip[event] =
            {x \in @ : x.submission # pk}
                \cup {[submission |-> pk, room |-> room, is_visible |-> TRUE,
                       start |-> start, end |-> end]},
        !.released =
            [i \in DOMAIN @ |->
                [@[i] EXCEPT !.talks =
                    {IF x.submission = pk
                     THEN [x EXCEPT !.room = room, !.start = start, !.end = end]
                     ELSE x : x \in @}]]]

\* lines 177-184: TalkSlot.objects.get_or_create(submission=sub,
\* schedule=event.wip_schedule), then room, is_visible, start, end
UpsertSlot(d, pk, event, room, start, end) ==
    [d EXCEPT !.wip[event] =
        {x \in @ : x.submission # pk}
            \cup {[submission |-> pk, room |-> room, is_visible |-> TRUE,
                   start |-> start, end |-> end]}]

\* the changes returned for a created talk as well
TalkSpeakersAndSlotAlways(sp, got, changes, code, times, room, event) ==
    IF sp.err # "" THEN Raise(sp.db, sp.err)
    ELSE [db      |-> UpsertSlot(sp.db, got.pk, event, room, times.start, times.end),
          err     |-> "",
          changes |-> IF DOMAIN changes # {}
                      THEN [c \in {code} |-> changes]
                      ELSE EmptyDict,
          drew    |-> got.drew]

\* lines 169-187, given the saved submission: speakers, slot, return value
TalkSpeakersAndSlot(sp, got, changes, code, times, room, event) ==
    IF sp.err # "" THEN Raise(sp.db, sp.err)
    ELSE [db      |-> UpsertSlot(sp.db, got.pk, event, room, times.start, times.end),
          err     |-> "",
          changes |-> IF ~got.created /\ DOMAIN changes # {}
                      THEN [c \in {code} |-> changes]
                      ELSE EmptyDict,
          drew    |-> got.drew]

\* lines 145-187, given the submission got or created
TalkMerge(got, talk, ty_pk, tr_pk, times, room, event) ==
    IF got.err # "" THEN Raise(got.db, got.err)
    ELSE IF \E f \in {"title", "description", "abstract", "language", "subtitle"} :
                talk[f] = Absent
    THEN Raise(got.db, "AttributeError")
    ELSE IF ~talk.has_persons
    THEN Raise([got.db EXCEPT !.subs[got.pk] =
                    SavedSubmission(@, ty_pk, tr_pk, ChangeTrackingData(talk))],
               "AttributeError")
    ELSE TalkSpeakersAndSlot(
            AddSpeakers([got.db EXCEPT !.subs[got.pk] =
                            SavedSubmission(@, ty_pk, tr_pk, ChangeTrackingData(talk))],
                        got.pk, event, talk.persons),
            got,
            FieldChanges(got.db.subs[got.pk], ChangeTrackingData(talk)),
            got.db.subs[got.pk].code, times, room, event)

\* lines 128-187, given the track found or created
TalkIdentity(tr, talk, ty_pk, times, room, event, rnd) ==
    IF talk.id = Absent THEN Raise(tr.db, "KeyError")
    ELSE IF ReadsGuid(tr.db, talk, event) /\ talk.guid = Absent
    THEN Raise(tr.db, "KeyError")
    ELSE TalkMerge(GetOrCreateSubmission(tr.db, event,
                                         ResolveCode(tr.db, talk, event),
                                         ty_pk, rnd),
                   talk, ty_pk, tr.pk, times, room, event)

\* lines 111-187, given the submission type found or created
TalkTrack(ty, talk, times, room, event, rnd) ==
    IF talk.track = Absent THEN Raise(ty.db, "AttributeError")
    ELSE IF talk.track = None THEN Raise(ty.db, "ValueError")
    ELSE TalkIdentity(TrackOf(ty.db, talk, event), talk, ty.pk, times,
                      room, event, rnd)

\* lines 100-187, given the times of the talk
TalkType(d, times, talk, room, event, rnd) ==
    IF times.err # "" THEN Raise(d, times.err)
    ELSE IF talk.type = Absent THEN Raise(d, "AttributeError")
    ELSE TalkTrack(SubTypeOf(d, talk, event, times.minutes), talk, times,
                   room, event, rnd)

\* _create_talk(talk=talk, room=room, event=event)
create_talk(d, talk, room, event, rnd) ==
    TalkType(d, TalkTimes(talk), talk, room, event, rnd)

----------------------------------------------------------------------------
(* process_frab, tasks.py lines 57-86 *)

\* line 67: changes.update(_create_talk(...))
MergedTalk(acc, one) ==
    [db |-> one.db, err |-> one.err,
     changes |-> DictUpdate(acc.changes, one.changes),
     drew |-> acc.drew \/ one.drew]

\* lines 66-67: the <event> elements of one room, in document order; acc is
\* the store and the changes so far, or the exception raised
RECURSIVE MergeEvents(_, _, _, _, _)
MergeEvents(acc, events, room, event, rnd) ==
    IF acc.err # "" \/ events = << >>
    THEN acc
    ELSE MergeEvents(MergedTalk(acc, create_talk(acc.db, Head(events), room,
                                                 event, rnd)),
                     Tail(events), room, event, rnd)

\* lines 64-67: the <room> elements of one day
RECURSIVE MergeRooms(_, _, _, _)
MergeRooms(acc, rooms, event, rnd) ==
    IF acc.err # "" \/ rooms = << >>
    THEN acc
    ELSE MergeRooms(
            MergeEvents([acc EXCEPT !.db.rooms =
                            @ \cup {[event |-> event, name |-> Head(rooms).name]}],
                        Head(rooms).events,
                        [event |-> event, name |-> Head(rooms).name],
                        event, rnd),
            Tail(rooms), event, rnd)

\* lines 62-67: the <day> elements
RECURSIVE MergeDaysFrom(_, _, _, _)
MergeDaysFrom(acc, days, event, rnd) ==
    IF acc.err # "" \/ days = << >>
    THEN acc
    ELSE MergeDaysFrom(MergeRooms(acc, Head(days), event, rnd),
                       Tail(days), event, rnd)

MergeDays(d, changes, days, event, rnd) ==
    MergeDaysFrom([db |-> d, err |-> "", changes |-> changes, drew |-> FALSE],
                  days, event, rnd)

\* line 73: Schedule.freeze refuses an empty or reserved name, and the
\* store refuses a second schedule of the event with the same version
FreezeFails(d, event, version) ==
    \/ version = None \/ version = ""
    \/ version \in {"wip", "latest"}
    \/ \E i \in DOMAIN d.released :
          d.released[i].event = event /\ d.released[i].version = version

\* lines 73-80: the working schedule becomes the release, all its slots
\* visible; the new working schedule holds copies, not visible
Freeze(d, event, version) ==
    [d EXCEPT
        !.released = Append(@, [event |-> event, version |-> version,
                                talks |-> {[x EXCEPT !.is_visible = TRUE] :
                                              x \in d.wip[event]}]),
        !.wip[event] = {[x EXCEPT !.is_visible = FALSE] : x \in d.wip[event]}]

\* both dates taken from the starts of the slots
WithDatesOfStarts(d, event, talks) ==
    LET first == MinOf({DtKey(x.start) : x \in talks})
        final == MaxOf({DtKey(x.start) : x \in talks})
    IN  [d EXCEPT !.dates[event] = [date_from |-> first \div 1440,
                                    date_to   |-> final \div 1440]]

\* the dates written to every event
WithDatesEverywhere(d, event, talks) ==
    LET first == MinOf({DtKey(x.start) : x \in talks})
        final == MaxOf({DtKey(x.end) : x \in talks})
    IN  [d EXCEPT !.dates = [e \in Events |->
                                [date_from |-> first \div 1440,
                                 date_to   |-> final \div 1440]]]

\* lines 81-85: the event's dates from the slots of the release
WithDates(d, event, talks) ==
    LET first == MinOf({DtKey(x.start) : x \in talks})
        final == MaxOf({DtKey(x.end) : x \in talks})
    IN  [d EXCEPT !.dates[event] = [date_from |-> first \div 1440,
                                    date_to   |-> final \div 1440]]

\* no transaction around the block: what it wrote stays
RollbackNone(before, after) == after

\* what leaves a transaction.atomic() block that raised: the store as it
\* was when the block was entered
Rollback(before, after) == before

\* the error of lines 76-78
ReleaseError(event, version) ==
    [text |-> "failed creating schedule release", event |-> event,
     version |-> version]

NoError == [text |-> "", event |-> "", version |-> ""]
OtherError(exc) == [text |-> exc, event |-> "", version |-> ""]

\* lines 80-86, given the store after the freeze
ReleaseDates(d, frozen, merged, event) ==
    IF frozen.released[Len(frozen.released)].talks = {}
    THEN [db |-> Rollback(d, frozen), ok |-> FALSE, stage |-> "dates",
          error |-> OtherError("AttributeError"), changes |-> EmptyDict,
          schedule |-> 0, touched |-> TRUE, drew |-> merged.drew]
    ELSE [db |-> WithDates(frozen, event,
                           frozen.released[Len(frozen.released)].talks),
          ok |-> TRUE, stage |-> "done", error |-> NoError,
          changes |-> merged.changes,
          schedule |-> Len(frozen.released), touched |-> TRUE,
          drew |-> merged.drew]

\* the failure of the freeze swallowed inside the block: the merge commits
ReleaseKeepsMerge(d, merged, root, event, release_new_version) ==
    IF merged.err # ""
    THEN [db |-> Rollback(d, merged.db), ok |-> FALSE, stage |-> "merge",
          error |-> OtherError(merged.err), changes |-> EmptyDict,
          schedule |-> 0, touched |-> merged.db # d, drew |-> merged.drew]
    ELSE IF ~release_new_version
    THEN [db |-> merged.db, ok |-> TRUE, stage |-> "done", error |-> NoError,
          changes |-> merged.changes, schedule |-> 0, touched |-> merged.db # d,
          drew |-> merged.drew]
    ELSE IF FreezeFails(merged.db, event, root.version)
    THEN [db |-> merged.db, ok |-> FALSE, stage |-> "freeze",
          error |-> ReleaseError(event, root.version),
          changes |-> EmptyDict, schedule |-> 0, touched |-> merged.db # d,
          drew |-> merged.drew]
    ELSE ReleaseDates(d, Freeze(merged.db, event, root.version), merged, event)

\* lines 69-86, given the store after the loop over the document
Release(d, merged, root, event, release_new_version) ==
    IF merged.err # ""
    THEN [db |-> Rollback(d, merged.db), ok |-> FALSE, stage |-> "merge",
          error |-> OtherError(merged.err), changes |-> EmptyDict,
          schedule |-> 0, touched |-> merged.db # d, drew |-> merged.drew]
    ELSE IF ~release_new_version
    THEN [db |-> merged.db, ok |-> TRUE, stage |-> "done", error |-> NoError,
          changes |-> merged.changes, schedule |-> 0, touched |-> merged.db # d, drew |-> merged.drew]
    ELSE IF FreezeFails(merged.db, event, root.version)
    THEN [db |-> Rollback(d, merged.db), ok |-> FALSE, stage |-> "freeze",
          error |-> ReleaseError(event, root.version),
          changes |-> EmptyDict, schedule |-> 0, touched |-> merged.db # d, drew |-> merged.drew]
    ELSE ReleaseDates(d, Freeze(merged.db, event, root.version), merged, event)

\* process_frab(root, event, release_new_version) under transaction.atomic();
\* schedule is the primary key of the release, 0 for None; touched tells
\* whether the block wrote to the store before it ended
process_frab(d, root, event, release_new_version, rnd) ==
    Release(d, MergeDays(d, EmptyDict, root.days, event, rnd), root, event,
            release_new_version)

----------------------------------------------------------------------------
(* task_refresh_upstream_schedule, tasks.py lines 21-54.  The task reads   *)
(* and writes the store in four places with nothing held in between: the   *)
(* fetch (lines 23-34), the change detection and parse (lines 36-48), the  *)
(* transaction of process_frab (lines 49-51) and the audit record (lines   *)
(* 52-54).  At most one task per event is in flight.                       *)

NoResponse == Response(0, "")

IdleTask ==
    [pc |-> "idle", response |-> NoResponse, release_new_version |-> FALSE,
     changes |-> EmptyDict, schedule |-> 0, touched |-> FALSE]

NoRun ==
    [n |-> 0, done |-> 0, at |-> 0, outcome |-> "none", error |-> NoError,
     content |-> "",
     touched |-> FALSE, prevOutcome |-> "none", prevContent |-> ""]

\* the end of a run of the task: what the task runner sees of it
Ended(e, outcome, error, content, touched) ==
    [n |-> last[e].n + 1,
     done |-> last[e].done + (IF outcome = "Done" THEN 1 ELSE 0),
     at |-> now, outcome |-> outcome, error |-> error,
     content |-> content, touched |-> touched,
     prevOutcome |-> last[e].outcome, prevContent |-> last[e].content]

\* hashlib.sha256() fed the body: a hash object, equal to nothing but itself
HashObject(content, id) == [type |-> "HASH", of |-> content, id |-> id]

\* the hexadecimal digest of a body, one for each body
Sha256Hex(content) == "sha256:" \o content

\* UpstreamResult.checksum: the fingerprint stored with a result
StoredChecksum(content) == [type |-> "str", of |-> Sha256Hex(content)]

\* a == b of Python on hash objects and strings: objects of different types
\* are not equal, strings are equal by value, hash objects by identity
PyEq(a, b) ==
    /\ a.type = b.type
    /\ IF a.type = "HASH" THEN a.id = b.id ELSE a.of = b.of

\* line 37: event.upstream_results.order_by('timestamp').first()
FirstByTimestamp(e) ==
    LET mine == {i \in DOMAIN results : results[i].event = e}
    IN  {i \in mine : \A j \in mine : results[i].timestamp <= results[j].timestamp}

\* without "not event.current_schedule"
ReleaseNewVersionIfReleased(d, event, schedule_version) ==
    CurrentVersion(d, event) # None /\ schedule_version # CurrentVersion(d, event)

\* lines 46-48
ReleaseNewVersion(d, event, schedule_version) ==
    CurrentVersion(d, event) = None \/ schedule_version # CurrentVersion(d, event)

\* json.dumps(changes): one member per talk code and field, None as null,
\* booleans as true and false, strings quoted
JsonValue(field, v) ==
    IF field = "do_not_record" THEN (IF v THEN "true" ELSE "false")
    ELSE IF v = None THEN "null"
    ELSE "\"" \o v \o "\""

JsonDumps(changes) ==
    {[key |-> code, field |-> f,
      old |-> JsonValue(f, changes[code][f].old),
      new |-> JsonValue(f, changes[code][f].new)] :
        <<code, f>> \in {p \in (DOMAIN changes) \X TrackedFields :
                            p[2] \in DOMAIN changes[p[1]]}}

\* lines 36-48, given the response and the result line 37 found (0: none):
\* how the change detection and the parse end
Detection(e, response, last_result) ==
    IF /\ last_result # 0
       /\ PyEq(HashObject(response.content, e), results[last_result].checksum)
    THEN [outcome |-> "UpToDate", error |-> NoError,
          release_new_version |-> FALSE]
    ELSE IF ~WellFormed(response.content)
    THEN [outcome |-> "MalformedDocument", error |-> OtherError("ParseError"),
          release_new_version |-> FALSE]
    ELSE IF Documents[response.content].version = Absent
    THEN [outcome |-> "MalformedDocument", error |-> OtherError("AttributeError"),
          release_new_version |-> FALSE]
    ELSE [outcome |-> "parsed", error |-> NoError,
          release_new_version |->
              ReleaseNewVersion(db, e, Documents[response.content].version)]

\* lines 23-48: the URL, the GET, the status, the change detection, the
\* parse and the release decision; none of them writes to the store
FetchStep(e) ==
    /\ task[e].pc = "idle"
    /\ IF PyOr(settings[e].downstream_upstream_url, "") = ""
       THEN /\ last' = [last EXCEPT ![e] =
                    Ended(e, "ConfigError", OtherError("No upstream URL was configured."),
                          "", FALSE)]
            /\ UNCHANGED <<task, now, settings>>
       ELSE \E response \in upstream[e] :
            \E last_result \in IF FirstByTimestamp(e) = {} THEN {0}
                               ELSE FirstByTimestamp(e) :
            /\ now' = now + 1
            /\ IF response.status_code # HttpOk
               THEN /\ last' = [last EXCEPT ![e] =
                            Ended(e, "FetchError",
                                  OtherError("Could not retrieve schedule"), "", FALSE)]
                    /\ UNCHANGED <<task, settings>>
               ELSE LET found == Detection(e, response, last_result) IN
                    IF found.outcome = "parsed"
                    THEN /\ task' = [task EXCEPT ![e] =
                                 [IdleTask EXCEPT
                                    !.pc = "parsed", !.response = response,
                                    !.release_new_version = found.release_new_version]]
                         /\ UNCHANGED <<last, settings>>
                    ELSE /\ last' = [last EXCEPT ![e] =
                                 Ended(e, found.outcome, found.error,
                                       response.content, FALSE)]
                         /\ settings' =
                                IF found.outcome = "UpToDate"
                                THEN [settings EXCEPT ![e].upstream_last_sync = now']
                                ELSE settings
                         /\ UNCHANGED task
    /\ UNCHANGED <<db, results, upstream, tick>>

\* task_refresh_upstream_schedule(event_slug) called directly
TaskCall(e) ==
    /\ budget > 0
    /\ budget' = budget - 1
    /\ FetchStep(e)
    /\ UNCHANGED invoked

\* the task runner starts an invocation queued by apply_async
TaskFetch(e) ==
    /\ invoked[e] > 0
    /\ invoked' = [invoked EXCEPT ![e] = @ - 1]
    /\ FetchStep(e)
    /\ UNCHANGED budget

\* how a run that failed in process_frab is classified
FailureOf(r) ==
    IF r.stage = "freeze" THEN "ReleaseFailed"
    ELSE IF r.stage = "dates" THEN "EmptyRelease"
    ELSE IF r.error.text = "IntegrityError" THEN "StoreError"
    ELSE "MalformedDocument"

\* the draws of Submission.save() that a run of process_frab can tell apart
DrawsFor(d, root, event, release_new_version) ==
    IF process_frab(d, root, event, release_new_version, FirstDraw).drew
    THEN CodeDraws ELSE {FirstDraw}

\* lines 49-51: process_frab, one transaction
TaskProcess(e) ==
    /\ task[e].pc = "parsed"
    /\ \E rnd \in DrawsFor(db, Documents[task[e].response.content], e,
                           task[e].release_new_version) :
       LET content == task[e].response.content
           r == process_frab(db, Documents[content], e,
                             task[e].release_new_version, rnd)
       IN  /\ r.error.text # "CodePoolExhausted"
           /\ db' = r.db
           /\ IF r.ok
              THEN /\ task' = [task EXCEPT ![e] =
                           [@ EXCEPT !.pc = "processed", !.changes = r.changes,
                                     !.schedule = r.schedule,
                                     !.touched = r.touched]]
                   /\ UNCHANGED last
              ELSE /\ task' = [task EXCEPT ![e] = IdleTask]
                   /\ last' = [last EXCEPT ![e] =
                           Ended(e, FailureOf(r), r.error, content, r.touched)]
    /\ UNCHANGED <<results, settings, upstream, invoked, budget, now, tick>>

\* the run completes without its UpstreamResult
TaskRecordNothing(e) ==
    /\ task[e].pc = "processed"
    /\ task' = [task EXCEPT ![e] = IdleTask]
    /\ last' = [last EXCEPT ![e] =
            Ended(e, "Done", NoError, task[e].response.content, task[e].touched)]
    /\ UNCHANGED <<db, results, settings, upstream, invoked, budget, now, tick>>

\* lines 52-54: UpstreamResult.objects.create(...)
TaskRecord(e) ==
    /\ task[e].pc = "processed"
    /\ results' = Append(results,
            [event |-> e, schedule |-> task[e].schedule,
             changes |-> JsonDumps(task[e].changes),
             content |-> task[e].response.content,
             checksum |-> StoredChecksum(task[e].response.content),
             timestamp |-> now])
    /\ task' = [task EXCEPT ![e] = IdleTask]
    /\ last' = [last EXCEPT ![e] =
            Ended(e, "Done", NoError, task[e].response.content, task[e].touched)]
    /\ UNCHANGED <<db, settings, upstream, invoked, budget, now, tick>>

----------------------------------------------------------------------------
(* refresh_upstream_schedule, signals.py lines 14-26: the receiver of the  *)
(* periodic_task signal                                                    *)

\* line 18: event.settings.downstream_interval or 5
IntervalSetting(e) == PyOr(settings[e].downstream_interval, None)

\* lines 19-22: int(interval) of a str that is no numeral raises ValueError,
\* which except TypeError does not catch; int(5) is 5
IntRaises(e) == IntervalSetting(e) # None /\ ~IsNumeral(IntervalSetting(e))

\* lines 18-23: the interval in minutes
IntervalOf(e) ==
    IF IntervalSetting(e) = None THEN DefaultInterval
    ELSE IntOf(IntervalSetting(e))

\* line 25
Due(e) ==
    LET last_pulled == settings[e].downstream_last_sync
    IN  last_pulled = -1 \/ now - last_pulled > IntervalOf(e)

\* lines 16-26: the loop from the i-th event on; sent collects the events
\* whose task was invoked, until the loop ends or raises
RECURSIVE PeriodicLoop(_, _)
PeriodicLoop(i, sent) ==
    IF i > Len(EventOrder)
    THEN [sent |-> sent, raised |-> FALSE, at |-> 0]
    ELSE LET e   == EventOrder[i]
             url == settings[e].downstream_upstream_url
         IN  IF url = None \/ url = ""
             THEN PeriodicLoop(i + 1, sent)
             ELSE IF IntRaises(e)
             THEN [sent |-> sent, raised |-> TRUE, at |-> i]
             ELSE IF Due(e)
             THEN PeriodicLoop(i + 1, sent \cup {e})
             ELSE PeriodicLoop(i + 1, sent)

PeriodicTask ==
    LET run == PeriodicLoop(1, {}) IN
    /\ budget >= Cardinality(run.sent)
    /\ budget' = budget - Cardinality(run.sent)
    /\ invoked' = [e \in Events |-> IF e \in run.sent THEN invoked[e] + 1
                                    ELSE invoked[e]]
    /\ tick' = [ran |-> TRUE, sent |-> run.sent, raised |-> run.raised,
                at |-> run.at, time |-> now,
                ended |-> [e \in Events |-> last[e].n]]
    /\ UNCHANGED <<db, results, settings, upstream, task, now, last>>

\* time passes
AdvanceClock ==
    /\ now < MaxTime
    /\ now' = now + 1
    /\ UNCHANGED <<db, results, settings, upstream, task, invoked, budget, last, tick>>

----------------------------------------------------------------------------
(* Specifications *)

NoTick ==
    [ran |-> FALSE, sent |-> {}, raised |-> FALSE, at |-> 0, time |-> 0,
     ended |-> [e \in Events |-> 0]]

\* event.settings of an event: the URL, the interval as stored (a str, or
\* None when unset), the two last-sync keys (-1 when unset)
Settings(url, interval, last_sync) ==
    [downstream_upstream_url |-> url, downstream_interval |-> interval,
     downstream_last_sync |-> last_sync, upstream_last_sync |-> -1]

InitStore ==
    /\ db = EmptyDb
    /\ results = << >>
    /\ task = [e \in Events |-> IdleTask]
    /\ invoked = [e \in Events |-> 0]
    /\ now = 0
    /\ last = [e \in Events |-> NoRun]
    /\ tick = NoTick

\* the pipeline: both schedules are served documents; the second schedule
\* may have no URL configured
Init ==
    /\ InitStore
    /\ budget = MaxRuns
    /\ upstream = [e \in Events |-> UpstreamOf(e)]
    /\ \E url2 \in {None, "https://up/e2"} :
          settings = [e \in Events |->
                        IF e = "e1" THEN Settings("https://up/e1", None, -1)
                        ELSE Settings(url2, None, -1)]

\* the pipeline on the documents of UpstreamEdge
InitEdge ==
    /\ InitStore
    /\ budget = MaxRuns
    /\ upstream = [e \in Events |-> UpstreamEdge(e)]
    /\ settings = [e \in Events |-> Settings("https://up/" \o e, None, -1)]

TaskSteps(e) == TaskProcess(e) \/ TaskRecord(e)

Next == \E e \in Events : TaskCall(e) \/ TaskSteps(e)

Spec == Init /\ [][Next]_vars

SpecEdge == InitEdge /\ [][Next]_vars

\* the trigger: every configuration of URL, interval and last sync, one
\* document per schedule
InitTrigger ==
    /\ InitStore
    /\ budget = MaxTriggerRuns
    /\ upstream = [e \in Events |-> {Response(HttpOk, "D1")}]
    /\ settings \in [Events -> {Settings(u, i, l) :
                        u \in {None, "https://up"},
                        i \in {None, "2", "abc"},
                        l \in {-1, 0}}]

NextTrigger ==
    PeriodicTask \/ AdvanceClock \/ \E e \in Events : TaskFetch(e) \/ TaskSteps(e)

SpecTrigger == InitTrigger /\ [][NextTrigger]_vars

----------------------------------------------------------------------------
(* Properties.  A run of the task for e is a sequence of steps of e: the   *)
(* fetch step, the transaction step (taken from pc "parsed") and the       *)
(* record step (taken from pc "processed"); last[e].n counts the runs that *)
(* ended.                                                                  *)

\* the step is the transaction of a run for e
Transaction(e) == task[e].pc = "parsed" /\ task'[e].pc # "parsed"
\* the transaction of a run for e commits in this step
Commits(e) == task[e].pc = "parsed" /\ task'[e].pc = "processed"
\* a run for e ends in this step
Ends(e) == last'[e].n # last[e].n

\* the <event> elements of a document, and the first of them
TalksOf(root) ==
    UNION {UNION {Range(root.days[i][j].events) : j \in DOMAIN root.days[i]} :
              i \in DOMAIN root.days}
FirstTalkOf(root) == root.days[1][1].events[1]

\* the talks of schedule e in store d
TalksIn(d, e) == {i \in DOMAIN d.subs : d.subs[i].event = e}
\* the RefreshResults of schedule e
ResultsOf(e) == {i \in DOMAIN results : results[i].event = e}

\* C1: when a run for a schedule fetches the very content that the previous
\* run of that schedule fetched and completed with, the later run ends as a
\* short-circuit without having created or modified anything, and exactly
\* one RefreshResult of the schedule holds that content.
C1_SecondRunShortCircuits ==
    \A e \in Events :
        (/\ last[e].prevOutcome = "Done"
         /\ last[e].outcome \notin {"none", "ConfigError", "FetchError"}
         /\ last[e].content = last[e].prevContent)
        => /\ last[e].outcome = "UpToDate"
           /\ ~last[e].touched
           /\ Cardinality({i \in ResultsOf(e) :
                              results[i].content = last[e].content}) = 1

\* C2: a transaction that ends because the release could not be frozen
\* leaves the store and the RefreshResults as they were before the run,
\* and the error names the schedule and the version of the document.
C2_ReleaseFailureAtomic ==
    [][\A e \in Events :
          (Transaction(e) /\ last'[e].outcome = "ReleaseFailed" /\ Ends(e))
          => /\ db' = db
             /\ results' = results
             /\ task'[e].pc = "idle"
             /\ last'[e].error.text = "failed creating schedule release"
             /\ last'[e].error.event = e
             /\ last'[e].error.version =
                    Documents[task[e].response.content].version]_vars

\* a release failed after the merge had written talks, rooms or slots
C2_Witness ==
    \E e \in Events :
        /\ last[e].outcome = "ReleaseFailed"
        /\ last[e].touched
        /\ last[e].error.event = e

\* the latest RefreshResult of e was written for these very bytes, which
\* is when the two digests are equal
LatestHasFingerprint(e, content) ==
    \E i \in ResultsOf(e) :
        /\ \A j \in ResultsOf(e) : results[j].timestamp <= results[i].timestamp
        /\ results[i].content = content

\* C3: a run gets past the change detection only if the fingerprint of the
\* fetched content differs from that of the latest RefreshResult of the
\* schedule, and short-circuits only if a latest RefreshResult exists and
\* the two are equal.
C3_ComparesWithLatest ==
    \A e \in Events :
        /\ task[e].pc = "parsed"
           => ~LatestHasFingerprint(e, task[e].response.content)
        /\ last[e].outcome = "UpToDate"
           => LatestHasFingerprint(e, last[e].content)

\* C4: no step changes the code or the schedule of a talk, and when a
\* committed merge meets an external id that is the code of a talk of the
\* schedule, that talk and no other takes the upstream values: it is still
\* the only talk of the schedule with that code, it carries the title of an
\* <event> with that id, its slot is the visible one just merged, and no
\* talk was created under that id's guid.
C4_CodeStable ==
    [][/\ \A i \in DOMAIN db.subs :
             /\ i \in DOMAIN db'.subs
             /\ db'.subs[i].code = db.subs[i].code
             /\ db'.subs[i].event = db.subs[i].event
       /\ \A e \in Events : Commits(e) =>
             \A t \in TalksOf(Documents[task[e].response.content]) :
             \A i \in TalksIn(db, e) :
                db.subs[i].code = t.id
                => /\ {j \in TalksIn(db', e) : db'.subs[j].code = t.id} = {i}
                   /\ \E u \in TalksOf(Documents[task[e].response.content]) :
                         u.id = t.id /\ db'.subs[i].title = u.title
                   /\ \E x \in (IF task[e].release_new_version
                                THEN db'.released[Len(db'.released)].talks
                                ELSE db'.wip[e]) :
                         x.submission = i /\ x.is_visible
                   /\ \A j \in TalksIn(db', e) \ TalksIn(db, e) :
                         db'.subs[j].code # SubSeq(t.guid, 1, 16)]_vars

\* a schedule merged D1 and then D2, which republishes external id "1" under
\* another guid and with other content: still one talk, code "1", title "B"
C4_Witness ==
    \E e \in Events :
        /\ last[e].outcome = "Done" /\ last[e].content = "D2"
        /\ last[e].prevOutcome = "Done" /\ last[e].prevContent = "D1"
        /\ \E i \in TalksIn(db, e) :
              /\ TalksIn(db, e) = {i}
              /\ db.subs[i].code = "1"
              /\ db.subs[i].title = "B"

\* some talk of schedule e, respectively of another schedule, has code c
\* (compared as the lookup compares, without regard to case)
InSchedule(d, e, c) ==
    \E i \in TalksIn(d, e) : Lower(d.subs[i].code) = Lower(c)
InOtherSchedule(d, e, c) ==
    \E i \in DOMAIN d.subs :
        d.subs[i].event # e /\ Lower(d.subs[i].code) = Lower(c)

\* C5: for the first <event> of a committed merge, against the store before
\* the run: when the external id is the code of a talk of this schedule or
\* of no talk at all, the talk with that code is the one merged and none is
\* created under the guid; when the id is the code of a talk of another
\* schedule only, and the first 16 characters of the guid are free or the
\* code of a talk of this schedule, the talk merged carries those 16
\* characters as code and this schedule gets no talk with the id as code.
C5_GuidFallback ==
    [][\A e \in Events : Commits(e) =>
          LET t   == FirstTalkOf(Documents[task[e].response.content])
              g16 == SubSeq(t.guid, 1, 16)
              new == TalksIn(db', e) \ TalksIn(db, e)
          IN  /\ (InSchedule(db, e, t.id) \/ ~InOtherSchedule(db, e, t.id))
                 => /\ \E i \in TalksIn(db', e) : db'.subs[i].code = t.id
                    /\ \A j \in new : db'.subs[j].code # g16
              /\ (/\ ~InSchedule(db, e, t.id)
                  /\ InOtherSchedule(db, e, t.id)
                  /\ (InSchedule(db, e, g16) \/ ~InOtherSchedule(db, e, g16)))
                 => /\ \E i \in TalksIn(db', e) : db'.subs[i].code = g16
                    /\ ~InSchedule(db', e, t.id)]_vars

\* external id "1" is the code of a talk of one schedule, and another
\* schedule that merged the same <event> holds it under the guid's prefix
C5_Witness ==
    \E e \in Events, f \in Events :
        /\ e # f
        /\ \E i \in TalksIn(db, f) : db.subs[i].code = "1"
        /\ \E i \in TalksIn(db, e) :
              db.subs[i].code = "0123456789abcdef" /\ db.subs[i].title = "A"
        /\ ~InSchedule(db, e, "1")

\* the value an <event> gives to each tracked field: the subtitle, when
\* there is one, goes in front of the description; the locale is "en"
\* when the document names none
UpstreamValue(t) ==
    [title          |-> t.title,
     description    |-> IF t.subtitle \in {None, ""} THEN t.description
                        ELSE t.subtitle \o "\n" \o
                             (IF t.description = None THEN "" ELSE t.description),
     abstract       |-> t.abstract,
     content_locale |-> IF t.language \in {None, ""} THEN "en" ELSE t.language,
     do_not_record  |-> t.recording = "true"]

\* the talks of schedule e in store d that <event> t stands for: the one
\* with the external id as code, else the one with the guid's prefix
MergeTarget(d, e, t) ==
    IF \E i \in TalksIn(d, e) : d.subs[i].code = t.id
    THEN {i \in TalksIn(d, e) : d.subs[i].code = t.id}
    ELSE {i \in TalksIn(d, e) : d.subs[i].code = SubSeq(t.guid, 1, 16)}

\* the fields of talk i that differ from what <event> t gives them
Differing(d, i, t) ==
    {f \in TrackedFields : d.subs[i][f] # UpstreamValue(t)[f]}

\* what merging <event> t into store d adds to the change map
Contribution(d, e, t) ==
    [c \in {d.subs[i].code : i \in {j \in MergeTarget(d, e, t) :
                                       Differing(d, j, t) # {}}} |->
        LET i == CHOOSE j \in MergeTarget(d, e, t) : d.subs[j].code = c
        IN  [f \in Differing(d, i, t) |->
                [old |-> d.subs[i][f], new |-> UpstreamValue(t)[f]]]]

\* the <event> elements of a document with their rooms, in document order
RECURSIVE RoomTalks(_, _)
RoomTalks(room, events) ==
    IF events = << >> THEN << >>
    ELSE <<[room |-> room, talk |-> Head(events)]>> \o RoomTalks(room, Tail(events))
RECURSIVE DayTalks(_)
DayTalks(rooms) ==
    IF rooms = << >> THEN << >>
    ELSE RoomTalks(Head(rooms).name, Head(rooms).events) \o DayTalks(Tail(rooms))
RECURSIVE DocumentTalks(_)
DocumentTalks(days) ==
    IF days = << >> THEN << >>
    ELSE DayTalks(Head(days)) \o DocumentTalks(Tail(days))

\* the contributions of the <event> elements in document order, each
\* against the store as the <event>s before it left it, later ones
\* replacing earlier ones for the same code
RECURSIVE ContributionsFrom(_, _, _, _)
ContributionsFrom(d, seq, e, acc) ==
    IF seq = << >> THEN acc
    ELSE ContributionsFrom(
            create_talk(d, Head(seq).talk, [event |-> e, name |-> Head(seq).room],
                        e, FirstDraw).db,
            Tail(seq), e,
            [c \in (DOMAIN acc) \cup (DOMAIN Contribution(d, e, Head(seq).talk)) |->
                IF c \in DOMAIN Contribution(d, e, Head(seq).talk)
                THEN Contribution(d, e, Head(seq).talk)[c] ELSE acc[c]])

\* C6 (as amended): the change map of a committed merge pass consists of
\* the contributions of its <event> elements in document order, a later
\* one replacing an earlier one for the same code; an <event> contributes
\* an entry keyed by its talk's code exactly when the talk existed before
\* that <event> was merged and a tracked field differed from the upstream
\* value, listing exactly those fields with the value stored just before
\* that <event> was merged as old and the upstream value as new; a talk
\* the <event> creates contributes nothing.
C6_ChangesPerEvent ==
    [][\A e \in Events : Commits(e) =>
          task'[e].changes =
              ContributionsFrom(db, DocumentTalks(Documents[task[e].response.content].days),
                                e, EmptyDict)]_vars

\* the example of the specification: stored title "A", upstream title "B"
C6_Witness ==
    \E e \in Events :
        /\ last[e].outcome = "Done" /\ last[e].content = "D1"
        /\ task[e].pc = "processed" /\ task[e].response.content = "D2"
        /\ DOMAIN task[e].changes = {"1"}
        /\ "title" \in DOMAIN task[e].changes["1"]
        /\ task[e].changes["1"].title = [old |-> "A", new |-> "B"]

\* C6 (as stated): the change map of a committed merge pass has an entry
\* for a talk's code exactly when the talk existed before the run and a
\* tracked field differed from the upstream value; the entry lists exactly
\* the differing fields with the pre-run value as old and the upstream
\* value (the one the run stored) as new; talks the run created have none.
C6_ChangesAgainstPreRun ==
    [][\A e \in Events : Commits(e) =>
          /\ \A c \in DOMAIN task'[e].changes :
                \E i \in TalksIn(db, e) : db.subs[i].code = c
          /\ \A i \in TalksIn(db, e) :
                LET differing == {f \in TrackedFields :
                                     db.subs[i][f] # db'.subs[i][f]}
                    c == db.subs[i].code
                IN  /\ differing # {} <=> c \in DOMAIN task'[e].changes
                    /\ c \in DOMAIN task'[e].changes
                       => /\ DOMAIN task'[e].changes[c] = differing
                          /\ \A f \in differing :
                                task'[e].changes[c][f] =
                                    [old |-> db.subs[i][f], new |-> db'.subs[i][f]]]_vars

\* the version of the current release of schedule e, if it has one
HasRelease(d, e) == \E i \in DOMAIN d.released : d.released[i].event = e
CurrentRelease(d, e) ==
    d.released[CHOOSE i \in DOMAIN d.released :
                  /\ d.released[i].event = e
                  /\ \A j \in DOMAIN d.released :
                        d.released[j].event = e => j <= i]
\* the run for e that fetched content has a release pending
Pending(e, content) ==
    \/ ~HasRelease(db, e)
    \/ Documents[content].version # CurrentRelease(db, e).version
\* the step adds a release of e tagged with the version of content
Minted(e, content) ==
    /\ Len(db'.released) = Len(db.released) + 1
    /\ SubSeq(db'.released, 1, Len(db.released)) = db.released
    /\ db'.released[Len(db'.released)].event = e
    /\ db'.released[Len(db'.released)].version = Documents[content].version

\* C7 (as amended): in every run whose merge transaction commits, a release
\* tagged with the upstream version is minted if and only if the schedule
\* has no current release or the upstream version differs from the current
\* release's; when the versions are equal the merge is applied to the
\* working schedule, no release is created and the RefreshResult of the run
\* refers to no release; when a release is minted the RefreshResult refers
\* to it.  A run whose transaction fails mints nothing.
C7_ReleaseDecision ==
    [][\A e \in Events :
          LET content == task[e].response.content IN
          /\ Commits(e) =>
                /\ Minted(e, content) <=> Pending(e, content)
                /\ Pending(e, content) => task'[e].schedule = Len(db'.released)
                /\ ~Pending(e, content) =>
                      /\ db'.released = db.released
                      /\ task'[e].schedule = 0
                      /\ \A t \in TalksOf(Documents[content]) :
                            \E x \in db'.wip[e] :
                               /\ x.is_visible
                               /\ db'.subs[x.submission].title \in
                                     {u.title : u \in TalksOf(Documents[content])}
          /\ (Transaction(e) /\ ~Commits(e)) => db'.released = db.released
          /\ task[e].pc = "processed" /\ task'[e].pc = "idle" =>
                /\ Len(results') = Len(results) + 1
                /\ results'[Len(results')].event = e
                /\ results'[Len(results')].schedule = task[e].schedule]_vars

\* a schedule with a release has a RefreshResult without release reference
\* for the content of that very version, next to one with a reference
C7_Witness ==
    \E e \in Events :
        /\ HasRelease(db, e)
        /\ \E i \in ResultsOf(e) :
              /\ results[i].schedule = 0
              /\ Documents[results[i].content].version = CurrentRelease(db, e).version
        /\ \E i \in ResultsOf(e) :
              /\ results[i].schedule # 0
              /\ db.released[results[i].schedule].event = e

\* C7 (as stated): every run that gets past the change detection mints a
\* release tagged with the upstream version if and only if the schedule
\* has no current release or the upstream version differs from it.
C7_EveryRunDecides ==
    [][\A e \in Events : Transaction(e) =>
          (Minted(e, task[e].response.content)
              <=> Pending(e, task[e].response.content))]_vars

\* C8: a run that ends for want of a URL, on a status other than 200 or on
\* a malformed document leaves the store and the RefreshResults as they
\* were; no step taken before the transaction is opened writes to either,
\* and the runs that end on the URL or the status end before it is opened.
C8_FailedRunsLeaveNoTrace ==
    [][\A e \in Events :
          /\ (Ends(e) /\ last'[e].outcome \in
                 {"ConfigError", "FetchError", "MalformedDocument"})
             => /\ db' = db
                /\ results' = results
                /\ task'[e].pc = "idle"
          /\ (Ends(e) /\ last'[e].outcome \in {"ConfigError", "FetchError"})
             => task[e].pc = "idle"
          /\ (task[e].pc = "idle" /\ (Ends(e) \/ task'[e] # task[e]))
             => db' = db /\ results' = results]_vars

\* a run ended on a non-numeric duration after it had merged a talk, on a
\* missing <version> before the transaction, and on a status other than 200
C8_Witness ==
    \E e \in Events :
        /\ last[e].outcome = "MalformedDocument"
        /\ last[e].error.text = "ValueError"
        /\ last[e].touched
        /\ last[e].prevOutcome \in {"FetchError", "MalformedDocument", "ConfigError"}
        /\ ~last[e].prevContent \in {"D4", "D7"}

\* the store with the talks of schedule e only
OnlySchedule(d, e) ==
    [d EXCEPT !.subs = SelectSeq(d.subs, LAMBDA s : s.event = e)]
CodesIn(d, e) == {d.subs[i].code : i \in TalksIn(d, e)}

\* C9 (as stated, the resolution part): the codes that a committed run
\* gives the talks of its schedule are those it would give them if the
\* other schedules had no talks.
C9_ResolutionIndependent ==
    [][\A e \in Events : Commits(e) =>
          CodesIn(db', e) =
              CodesIn(process_frab(OnlySchedule(db, e),
                                   Documents[task[e].response.content], e,
                                   task[e].release_new_version, FirstDraw).db, e)]_vars

\* the rows of schedule f in the table t of store d, with their keys
RowsOf(d, t, f) == {<<i, d[t][i]>> : i \in {j \in DOMAIN d[t] : d[t][j].event = f}}

\* C9 (as amended): a step of the task of schedule e writes no row of
\* another schedule (rooms, types, tracks, talks, slots, releases, dates,
\* speaker profiles, RefreshResults, settings), and writes the users, which
\* all schedules share, only by adding to them.
C9_WritesOwnSchedule ==
    [][\A e \in Events : (Ends(e) \/ task'[e] # task[e]) =>
          /\ \A f \in Events \ {e} :
                /\ {r \in db'.rooms : r.event = f} = {r \in db.rooms : r.event = f}
                /\ {p \in db'.profiles : p.event = f} = {p \in db.profiles : p.event = f}
                /\ \A t \in {"types", "tracks", "subs", "released"} :
                      RowsOf(db', t, f) = RowsOf(db, t, f)
                /\ db'.wip[f] = db.wip[f]
                /\ db'.dates[f] = db.dates[f]
                /\ {<<i, results'[i]>> : i \in {j \in DOMAIN results' : results'[j].event = f}}
                      = {<<i, results[i]>> : i \in ResultsOf(f)}
                /\ settings'[f] = settings[f]
                /\ task'[f] = task[f]
          /\ \A i \in DOMAIN db.users :
                i \in DOMAIN db'.users /\ db'.users[i] = db.users[i]]_vars

\* both schedules merged the <event> with id "1" by speaker "Ann": the
\* speaker is one user with one profile, in the schedule that came first
C9_Witness ==
    \E e \in Events, f \in Events :
        /\ e # f
        /\ last[e].outcome = "Done" /\ last[f].outcome = "Done"
        /\ \E i \in TalksIn(db, e), j \in TalksIn(db, f), u \in DOMAIN db.users :
              /\ db.users[u].name = "Ann"
              /\ u \in db.subs[i].speakers /\ u \in db.subs[j].speakers
              /\ [user |-> u, event |-> f] \in db.profiles
              /\ [user |-> u, event |-> e] \notin db.profiles
              /\ \A x \in db.wip[f] : ~x.is_visible

\* the interval the rule gives schedule e, in minutes
RuleInterval(e) ==
    IF settings[e].downstream_interval \in {None, ""}
       \/ ~IsNumeral(settings[e].downstream_interval)
    THEN 5
    ELSE IntOf(settings[e].downstream_interval)

\* C10: a periodic tick raises no error, and invokes the task of every
\* schedule that has a non-empty URL and whose last sync is unset or lies
\* more than the interval back, the interval being 5 minutes when the
\* configured value is unset or not a number.
C10_TriggerRule ==
    tick.ran =>
        /\ ~tick.raised
        /\ \A e \in Events :
              (/\ settings[e].downstream_upstream_url \notin {None, ""}
               /\ \/ settings[e].downstream_last_sync = -1
                  \/ tick.time - settings[e].downstream_last_sync > RuleInterval(e))
              => e \in tick.sent

\* datetime a is not later than datetime b
NotLater(a, b) == a.day < b.day \/ (a.day = b.day /\ a.min <= b.min)

\* C11: when a committed run mints a release, the date range of the event
\* is afterwards the day of the earliest slot start and the day of the
\* latest slot end among the slots of that release; a step of a run that
\* mints no release leaves the date range of the event as it was.
C11_DateRange ==
    [][\A e \in Events :
          /\ (Commits(e) /\ Minted(e, task[e].response.content)) =>
                LET talks == db'.released[Len(db'.released)].talks IN
                /\ \E x \in talks :
                      /\ \A y \in talks : NotLater(x.start, y.start)
                      /\ db'.dates[e].date_from = x.start.day
                /\ \E x \in talks :
                      /\ \A y \in talks : NotLater(y.end, x.end)
                      /\ db'.dates[e].date_to = x.end.day
          /\ ((Ends(e) \/ task'[e] # task[e])
                 /\ ~(Commits(e) /\ Minted(e, task[e].response.content)))
             => db'.dates[e] = db.dates[e]]_vars

\* the example of the specification: the release holds slots from
\* 2024-01-01 09:00 through 2024-01-03 17:00, the event runs from day 1 to 3
C11_Witness ==
    \E e \in Events :
        /\ HasRelease(db, e)
        /\ \E x \in CurrentRelease(db, e).talks : x.start = [day |-> 1, min |-> 540]
        /\ \E x \in CurrentRelease(db, e).talks : x.end = [day |-> 3, min |-> 1020]
        /\ Cardinality(CurrentRelease(db, e).talks) = 2
        /\ db.dates[e] = [date_from |-> 1, date_to |-> 3]

\* the last run of e that ended had fetched the content that the run before
\* it had completed with: the content was unchanged
UnchangedRunEnded(e) ==
    /\ last[e].prevOutcome = "Done"
    /\ last[e].content = last[e].prevContent
    /\ last[e].outcome \notin {"none", "ConfigError", "FetchError"}

\* C12: once a run that found the content unchanged has ended, the
\* last-sync time that the periodic trigger reads is the time of that run
\* or later, and a tick that comes after that run within the interval does
\* not invoke the task of the schedule.
C12_ShortCircuitMarksSync ==
    \A e \in Events : UnchangedRunEnded(e) =>
        /\ settings[e].downstream_last_sync >= last[e].at
        /\ (/\ tick.ran
            /\ tick.ended[e] = last[e].n
            /\ tick.time - last[e].at <= RuleInterval(e))
           => e \notin tick.sent

\* neither the external id of <event> t nor the first 16 characters of its
\* guid is acceptable for schedule e: each is the code of a talk of another
\* schedule and of no talk of e
Unresolvable(d, e, t) ==
    /\ ~InSchedule(d, e, t.id) /\ InOtherSchedule(d, e, t.id)
    /\ ~InSchedule(d, e, SubSeq(t.guid, 1, 16))
    /\ InOtherSchedule(d, e, SubSeq(t.guid, 1, 16))

\* C13: a committed run whose <event> elements all are unresolvable
\* against the store before the run creates no talk.
C13_UnresolvableCreatesNothing ==
    [][\A e \in Events :
          (/\ Commits(e)
           /\ \A t \in TalksOf(Documents[task[e].response.content]) :
                 Unresolvable(db, e, t))
          => TalksIn(db', e) = TalksIn(db, e)]_vars

\* no two <event> elements of the document share an external id
NoRepeatedId(root) ==
    \A t \in TalksOf(root), u \in TalksOf(root) : t.id = u.id => t = u

\* C14: when a schedule merges in two successive passes the same document,
\* in which every talk occurs once, the second pass reports no change and
\* leaves the five tracked fields of every talk of the schedule as the
\* first pass stored them (the subtitle put in front of the description
\* and the locale defaulting to "en" included).
C14_MergeIdempotent ==
    [][\A e \in Events :
          (/\ Commits(e)
           /\ last[e].outcome = "Done"
           /\ last[e].content = task[e].response.content
           /\ NoRepeatedId(Documents[task[e].response.content]))
          => /\ task'[e].changes = EmptyDict
             /\ \A i \in TalksIn(db, e) : \A f \in TrackedFields :
                   db'.subs[i][f] = db.subs[i][f]]_vars

\* a schedule merged D2 twice (subtitle "Intro", language "de"): the talk
\* holds the folded description and the second RefreshResult has no changes
C14_Witness ==
    \E e \in Events :
        /\ last[e].outcome = "Done" /\ last[e].content = "D2"
        /\ last[e].prevOutcome = "Done" /\ last[e].prevContent = "D2"
        /\ \E i \in TalksIn(db, e) :
              /\ db.subs[i].description = "Intro\nDetails"
              /\ db.subs[i].content_locale = "de"
              /\ db.subs[i].do_not_record
        /\ \E r \in ResultsOf(e) :
              /\ \A q \in ResultsOf(e) : q <= r
              /\ results[r].content = "D2" /\ results[r].changes = {}

\* C15: no step changes a release that exists: it keeps its place, its
\* event, its version and its set of slots with their talk, room,
\* visibility, start and end; a step adds at most one release, at the end.
C15_ReleasesImmutable ==
    [][/\ \A i \in DOMAIN db.released :
             /\ i \in DOMAIN db'.released
             /\ db'.released[i] = db.released[i]
       /\ Len(db'.released) <= Len(db.released) + 1]_vars

\* two releases of one schedule hold the slot of the same talk at
\* different times: the later run moved the talk, the older release kept it
C15_Witness ==
    \E i \in DOMAIN db.released, j \in DOMAIN db.released :
        /\ i < j
        /\ db.released[i].event = db.released[j].event
        /\ \E x \in db.released[i].talks, y \in db.released[j].talks :
              /\ x.submission = y.submission
              /\ x.start # y.start
              /\ x.is_visible /\ y.is_visible

\* the name under which the track of <event> t is stored
TrackNameOf(t) == IF t.track \in {None, ""} THEN "default" ELSE t.track

\* the tracks of schedule e in store d
TracksIn(d, e) == {i \in DOMAIN d.tracks : d.tracks[i].event = e}

\* C16: the transaction of a run creates, for every track name of its
\* document, at most one track, and none when a track of the schedule
\* already has exactly that name; an <event> with an empty track name has
\* its track stored as "default".
C16_TrackPerName ==
    [][\A e \in Events : Transaction(e) =>
          \A t \in TalksOf(Documents[task[e].response.content]) :
             /\ Cardinality({i \in TracksIn(db', e) \ TracksIn(db, e) :
                                db'.tracks[i].name = TrackNameOf(t)}) <= 1
             /\ (\E i \in TracksIn(db, e) : db.tracks[i].name = TrackNameOf(t))
                => ~\E i \in TracksIn(db', e) \ TracksIn(db, e) :
                       db'.tracks[i].name = TrackNameOf(t)
             /\ t.track \in {None, ""}
                => \E i \in TracksIn(db', e) : db'.tracks[i].name = "default"]_vars

\* C17: a schedule never holds two SubmissionTypes with the same name and
\* the same duration in minutes.
C17_TypePerNameAndDuration ==
    \A i \in DOMAIN db.types, j \in DOMAIN db.types :
        (/\ db.types[i].event = db.types[j].event
         /\ db.types[i].name = db.types[j].name
         /\ db.types[i].default_duration = db.types[j].default_duration)
        => i = j

\* the display name of a person cut to the fixed maximum length
ShortName(name) == IF Len(name) <= 60 THEN name ELSE SubSeq(name, 1, 60)

\* the persons of the <event> elements of a document
PersonsOf(root) == UNION {Range(t.persons) : t \in TalksOf(root)}

\* C18: after a committed merge every person of the document is one user,
\* stored under the name cut to the maximum length; and the merge of a
\* document whose persons all have been sighted before commits and creates
\* no user.
C18_SpeakerByShortName ==
    [][\A e \in Events : Transaction(e) =>
          LET persons == PersonsOf(Documents[task[e].response.content]) IN
          /\ Commits(e) =>
                \A p \in persons :
                   Cardinality({u \in DOMAIN db'.users :
                                   db'.users[u].name = ShortName(p)}) = 1
          /\ (/\ persons # {}
              /\ \A p \in persons : \E u \in DOMAIN db.users :
                    ShortName(db.users[u].name) = ShortName(p))
             => Commits(e) /\ db'.users = db.users]_vars

\* the merges of schedule e that are committed: those of the runs that
\* completed and that of the run in flight, once its transaction is through
CommittedMerges(e) ==
    last[e].done + (IF task[e].pc = "processed" THEN 1 ELSE 0)

\* C19 (as amended): a run that ends by a failure has persisted nothing and
\* written no RefreshResult; a run that completes has committed its merge
\* in an earlier step and writes its RefreshResult, for its schedule and
\* content, in the step that ends it; the step that commits the merge
\* writes no RefreshResult.  So a schedule has as many RefreshResults as
\* runs that completed, and between the commit and the end of a run the
\* merge is committed while its RefreshResult is not yet written.
C19_RecordFollowsCommit ==
    [][\A e \in Events :
          /\ Cardinality(ResultsOf(e)) = last[e].done
          /\ Commits(e) => results' = results /\ ~Ends(e)
          /\ (Ends(e) /\ last'[e].outcome # "Done")
             => results' = results /\ db' = db
          /\ (Ends(e) /\ last'[e].outcome = "Done")
             => /\ task[e].pc = "processed"
                /\ db' = db
                /\ Len(results') = Len(results) + 1
                /\ SubSeq(results', 1, Len(results)) = results
                /\ results'[Len(results')].event = e
                /\ results'[Len(results')].content = last'[e].content]_vars

\* a run failed after it had written to the store, the next run of the
\* schedule completed: the schedule has one RefreshResult, for the second
C19_Witness ==
    \E e \in Events :
        /\ last[e].outcome = "Done" /\ last[e].touched
        /\ last[e].prevOutcome \in {"ReleaseFailed", "MalformedDocument"}
        /\ last[e].prevContent \in {"D4", "D5", "D7"}
        /\ \E r \in ResultsOf(e) :
              ResultsOf(e) = {r} /\ results[r].content = last[e].content

\* C19 (as stated): in no reachable state is a merge committed while its
\* RefreshResult is missing: a schedule has as many RefreshResults as
\* committed merges.
C19_NoCommitWithoutRecord ==
    \A e \in Events : Cardinality(ResultsOf(e)) = CommittedMerges(e)

\* C20: no two talks, of one schedule or of two, carry codes that are
\* equal when letter case is disregarded.
C20_CodesUniqueIgnoringCase ==
    \A i \in DOMAIN db.subs, j \in DOMAIN db.subs :
        i # j => Lower(db.subs[i].code) # Lower(db.subs[j].code)
====
